---------------------------- MODULE Spec2Model ----------------------------
(***************************************************************************)
(* Model of ass_to_json.py: the extraction of dialogue records from the    *)
(* lines of an ASS subtitle file (parse_ass_file), the writing of the      *)
(* records (write_json) and the command line shell around them (main).     *)
(*                                                                         *)
(* A Python str is a sequence of characters, each a string: a character    *)
(* TLA+ can write is the one-character string, any other is the string of  *)
(* its code point, "U+3000".  An optional value (args.output, a local not  *)
(* yet assigned) is None, the empty tuple, or Some(v), the one-tuple of v,  *)
(* so that the empty str and None differ.                                  *)
(***************************************************************************)
EXTENDS Integers, Sequences, FiniteSets, TLC

VARIABLES
    pc,           \* position of the control flow in main / parse_ass_file
    args_input,   \* args.input: the positional argument, a str
    args_output,  \* args.output: a str, or None when -o is absent
    fs_stat,      \* what os.stat gives for the input path: "found",
                  \* "missing", or "error" (name too long, no permission)
    lines,        \* the lines `for line in file` yields, terminators kept
    idx,          \* index of the next line the loop of parse_ass_file reads
    dialogues,    \* the list of records built by parse_ass_file
    in_open,      \* the input file object is open
    out_open,     \* the output file object is open
    out_disk,     \* what is on disk at the output path
    input_path,   \* Some(Path(args.input)), None before line 69
    output_path,  \* Some(the output Path), None before line 81
    exc,          \* where the exception main catches was raised, "none" if none
    stdout        \* what has been printed, in order

vars == <<pc, args_input, args_output, fs_stat, lines, idx, dialogues,
          in_open, out_open, out_disk, input_path, output_path, exc, stdout>>

None == <<>>
Some(s) == <<s>>

(***************************************************************************)
(* Bounds of the model.                                                    *)
(***************************************************************************)
\* the longest file, in lines
MaxLines == 2

(***************************************************************************)
(* str primitives.                                                         *)
(***************************************************************************)

\* str.startswith
StartsWith(s, prefix) ==
    /\ Len(s) >= Len(prefix)
    /\ SubSeq(s, 1, Len(prefix)) = prefix

\* the characters str.strip() removes: those str.isspace holds of
Whitespace ==
    { "\t", "\n", "U+000B", "\f", "\r", "U+001C", "U+001D", "U+001E", "U+001F",
      " ", "U+0085", "U+00A0", "U+1680", "U+2000", "U+2001", "U+2002",
      "U+2003", "U+2004", "U+2005", "U+2006", "U+2007", "U+2008", "U+2009",
      "U+200A", "U+2028", "U+2029", "U+202F", "U+205F", "U+3000" }

RECURSIVE LStrip(_)
LStrip(s) ==
    IF s # <<>> /\ Head(s) \in Whitespace THEN LStrip(Tail(s)) ELSE s

RECURSIVE RStrip(_)
RStrip(s) ==
    IF s # <<>> /\ s[Len(s)] \in Whitespace
    THEN RStrip(SubSeq(s, 1, Len(s) - 1))
    ELSE s

\* Strip with lstrip in the place of strip
Strip_LeftOnly(s) == LStrip(s)

\* str.strip()
Strip(s) == RStrip(LStrip(s))

(***************************************************************************)
(* dialogue_pattern, as re.match runs it from the start of the line.       *)
(***************************************************************************)

\* the literal the pattern begins with
PatternLiteral == <<"D", "i", "a", "l", "o", "g", "u", "e", ":", " ">>

\* the prefix line.startswith tests
Marker == <<"D", "i", "a", "l", "o", "g", "u", "e", ":">>

\* the number of [^,]*, items inside the third group
MetaFields == 6

\* [^,]* from position p: the first position at or after p that holds a
\* comma, Len(s) + 1 when there is none.  [^,] matches a newline too.
RECURSIVE ScanNotComma(_, _)
ScanNotComma(s, p) ==
    IF p > Len(s) \/ s[p] = "," THEN p ELSE ScanNotComma(s, p + 1)

\* n items [^,]*, from position p: the position after the n-th comma, 0 when
\* the match fails.  A shorter [^,]* never ends before a comma, so there is
\* nothing to backtrack to.
RECURSIVE MatchFields(_, _, _)
MatchFields(s, p, n) ==
    IF p = 0 THEN 0
    ELSE IF n = 0 THEN p
    ELSE LET q == ScanNotComma(s, p)
         IN  IF q > Len(s) THEN 0 ELSE MatchFields(s, q + 1, n - 1)

\* .* from position p: the first position at or after p that holds a
\* newline, Len(s) + 1 when there is none
RECURSIVE ScanDot(_, _)
ScanDot(s, p) ==
    IF p > Len(s) \/ s[p] = "\n" THEN p ELSE ScanDot(s, p + 1)

\* a literal of the pattern at position p: the position after it, 0 when
\* the characters differ
MatchLiteral(s, p, literal) ==
    IF /\ p + Len(literal) - 1 <= Len(s)
       /\ \A i \in 1..Len(literal) : s[p + i - 1] = literal[i]
    THEN p + Len(literal)
    ELSE 0

\* re.match returns None when the pattern does not match
NoMatch == <<>>

\* dialogue_pattern.match(line): NoMatch, or the four groups of the match
dialogue_pattern(line) ==
    LET p0 == MatchLiteral(line, 1, PatternLiteral)
        p1 == MatchFields(line, p0, 1)
        p2 == MatchFields(line, p1, 1)
        p3 == MatchFields(line, p2, 1)
        p4 == MatchFields(line, p3, MetaFields)
    IN  IF p4 = 0 THEN NoMatch
        ELSE <<SubSeq(line, p1, p2 - 2),
               SubSeq(line, p2, p3 - 2),
               SubSeq(line, p3, p4 - 1),
               SubSeq(line, p4, ScanDot(line, p4) - 1)>>

\* ProcessLine with the line stripped before it is tested
ProcessLine_StripsLine(ds, line) ==
    IF StartsWith(LStrip(line), Marker)
    THEN LET match == dialogue_pattern(LStrip(line))
         IN  IF match # NoMatch
             THEN Append(ds, [start_time |-> match[1],
                              end_time   |-> match[2],
                              dialog     |-> Strip(match[4])])
             ELSE ds
    ELSE ds

\* ProcessLine with insert(0, dialogue) in the place of append
ProcessLine_Prepends(ds, line) ==
    IF StartsWith(line, Marker)
    THEN LET match == dialogue_pattern(line)
         IN  IF match # NoMatch
             THEN <<[start_time |-> match[1],
                     end_time   |-> match[2],
                     dialog     |-> Strip(match[4])]>> \o ds
             ELSE ds
    ELSE ds

\* the body of the loop of parse_ass_file: the list after one line
ProcessLine(ds, line) ==
    IF StartsWith(line, Marker)
    THEN LET match == dialogue_pattern(line)
         IN  IF match # NoMatch
             THEN Append(ds, [start_time |-> match[1],
                              end_time   |-> match[2],
                              dialog     |-> Strip(match[4])])
             ELSE ds
    ELSE ds

(***************************************************************************)
(* pathlib (PurePosixPath).  A Path is the record of its root, a str that  *)
(* is empty for a relative path, and its parts, the components after the   *)
(* root.                                                                   *)
(***************************************************************************)

\* str.rfind(c): the last position of s that holds c, 0 when there is none
RECURSIVE RFind(_, _, _)
RFind(s, c, p) ==
    IF p = 0 THEN 0
    ELSE IF s[p] = c THEN p
    ELSE RFind(s, c, p - 1)

\* the first position of s at or after p that holds c, Len(s) + 1 when
\* there is none
RECURSIVE Find(_, _, _)
Find(s, c, p) ==
    IF p > Len(s) \/ s[p] = c THEN p ELSE Find(s, c, p + 1)

\* str.split(sep)
RECURSIVE Split(_, _)
Split(s, sep) ==
    LET i == Find(s, sep, 1)
    IN  IF i > Len(s) THEN <<s>>
        ELSE <<SubSeq(s, 1, i - 1)>> \o Split(SubSeq(s, i + 1, Len(s)), sep)

\* the number of slashes s begins with
RECURSIVE LeadingSlashes(_)
LeadingSlashes(s) ==
    IF s # <<>> /\ Head(s) = "/" THEN 1 + LeadingSlashes(Tail(s)) ELSE 0

\* splitroot: exactly two leading slashes are a root of their own
Root(s) ==
    IF LeadingSlashes(s) = 0 THEN <<>>
    ELSE IF LeadingSlashes(s) = 2 THEN <<"/", "/">>
    ELSE <<"/">>

\* Path(s): empty components and "." components are dropped
Path(s) ==
    [root  |-> Root(s),
     parts |-> SelectSeq(Split(s, "/"), LAMBDA c : c # <<>> /\ c # <<".">>)]

\* sep.join(parts)
RECURSIVE JoinParts(_)
JoinParts(parts) ==
    IF parts = <<>> THEN <<>>
    ELSE IF Len(parts) = 1 THEN parts[1]
    ELSE parts[1] \o <<"/">> \o JoinParts(Tail(parts))

\* str(path)
Str(path) ==
    IF path.root \o JoinParts(path.parts) = <<>> THEN <<".">>
    ELSE path.root \o JoinParts(path.parts)

\* Path.name
Name(path) ==
    IF path.parts = <<>> THEN <<>> ELSE path.parts[Len(path.parts)]

\* Path.suffix: the name from its last dot on, when that dot is neither the
\* first nor the last character of the name
Suffix(path) ==
    LET i == RFind(Name(path), ".", Len(Name(path)))
    IN  IF 1 < i /\ i < Len(Name(path))
        THEN SubSeq(Name(path), i, Len(Name(path)))
        ELSE <<>>

\* WithSuffix that cuts the name at its first dot
WithSuffix_AllSuffixes(path, suffix) ==
    [path EXCEPT !.parts[Len(path.parts)] =
        SubSeq(@, 1, Find(@, ".", 1) - 1) \o suffix]

\* Path.with_suffix(suffix), of a path that has a name (main calls it on a
\* path whose suffix is .ass)
WithSuffix(path, suffix) ==
    [path EXCEPT !.parts[Len(path.parts)] =
        SubSeq(@, 1, Len(@) - Len(Suffix(path))) \o suffix]

UpperCase == <<"A", "B", "C", "D", "E", "F", "G", "H", "I", "J", "K", "L", "M",
               "N", "O", "P", "Q", "R", "S", "T", "U", "V", "W", "X", "Y", "Z">>
LowerCase == <<"a", "b", "c", "d", "e", "f", "g", "h", "i", "j", "k", "l", "m",
               "n", "o", "p", "q", "r", "s", "t", "u", "v", "w", "x", "y", "z">>

\* str.lower() of one character (ASCII)
LowerChar(c) ==
    IF \E i \in 1..Len(UpperCase) : UpperCase[i] = c
    THEN LowerCase[CHOOSE i \in 1..Len(UpperCase) : UpperCase[i] = c]
    ELSE c

\* str.lower()
Lower(s) == [i \in 1..Len(s) |-> LowerChar(s[i])]

Ass == <<".", "a", "s", "s">>
Json == <<".", "j", "s", "o", "n">>

\* line 81: Path(args.output) if args.output else input_path.with_suffix
ResolveOutputPath(output, path) ==
    IF output # None /\ output[1] # <<>>
    THEN Path(output[1])
    ELSE WithSuffix(path, Json)

(***************************************************************************)
(* What is on disk at the output path, and what is printed.                *)
(***************************************************************************)

\* state: "absent", "old" (a file written before this run), "empty" (just
\* truncated by open), "partial" (a dump that failed) or "json" (the array)
Disk(state, array) == [state |-> state, array |-> array]

\* a printed message; count is the number in "Extracted N dialogue lines"
\* and 0 in the other messages
Msg(kind, count) == [kind |-> kind, count |-> count]

\* what stdout holds after a print that raised (the stream cannot encode
\* the text, the disk is full): what it held, or that and a fragment of
\* the message
PrintRaises(out) == { out, Append(out, Msg("fragment", 0)) }

(***************************************************************************)
(* The inputs of the model: command lines and file contents.               *)
(***************************************************************************)

\* the nine fields before the text of a well-formed event, as Aegisub
\* writes them: layer, start, end, style, name, three margins, effect
Fields ==
    << <<"0">>,
       <<"0", ":", "0", "0", ":", "0", "1", ".", "0", "0">>,
       <<"0", ":", "0", "0", ":", "0", "2", ".", "5", "0">>,
       <<"D", "e", "f", "a", "u", "l", "t">>,
       <<>>, <<"0">>, <<"0">>, <<"0">>, <<>> >>

\* fields with blanks around the times and an empty layer
PaddedFields ==
    << <<>>,
       <<" ", "0", ":", "0", "0", ":", "0", "1", ".", "0", "0", " ">>,
       <<"\t", "0", ":", "0", "2", " ">>,
       <<"D", "e", "f", "a", "u", "l", "t">>,
       <<>>, <<"0">>, <<"0">>, <<"0">>, <<>> >>

\* the first n fields, each followed by a comma
RECURSIVE Join(_, _)
Join(fs, n) ==
    IF n = 0 THEN <<>>
    ELSE Join(fs, n - 1) \o fs[n] \o <<",">>

\* the texts of the events
Texts ==
    { <<>>,
      <<"H", "i", " ", "t", "h", "e", "r", "e">>,
      <<" ", " ", "H", "i", " ", "t", "h", "e", "r", "e", " ", "\t">>,
      <<"W", "a", "i", "t", ",", " ", "w", "h", "a", "t", "?">>,
      <<"{", "\\", "i", "1", "}", "a", " ", " ", "b", "{", "\\", "i", "0", "}">>,
      <<"U+3000", "H", "i", "U+00A0", "!", "U+000B">>,
      <<" ", "\t", " ">> }

\* line beginnings that are not the marker
OtherHeads ==
    { <<"d", "i", "a", "l", "o", "g", "u", "e", ":", " ">>,
      <<" ", "D", "i", "a", "l", "o", "g", "u", "e", ":", " ">>,
      <<"C", "o", "m", "m", "e", "n", "t", ":", " ">>,
      <<"D", "i", "a", "l", "o", "g", "u", "e", " ">> }

EventLine(head, fs, n, text) == head \o Join(fs, n) \o text \o <<"\n">>

\* the lines of the files parse_ass_file is run on: events with and without
\* the blank after the marker, with nine fields or eight, other line kinds
ParseLines ==
    { EventLine(head, Fields, n, text) :
          head \in {PatternLiteral, Marker}, n \in {8, 9}, text \in Texts }
    \cup { EventLine(PatternLiteral, PaddedFields, 9, text) : text \in Texts }
    \cup { EventLine(head, Fields, 9, <<"H", "i">>) : head \in OtherHeads }
    \cup { <<"\n">>,
           <<"[", "E", "v", "e", "n", "t", "s", "]", "\n">>,
           PatternLiteral \o <<"\n">> }

\* the lines of the files main is run on
MainLines ==
    { EventLine(PatternLiteral, Fields, 9, <<"H", "i", ",", " ", "x", " ">>),
      EventLine(PatternLiteral, PaddedFields, 9, <<" ", "{", "y", "}">>),
      EventLine(Marker, Fields, 9, <<"H", "i">>),
      EventLine(PatternLiteral, Fields, 2, <<>>) }

\* a file whose last line has no terminator
ChopLast(f) ==
    IF f # <<>> /\ Len(f[Len(f)]) > 1
    THEN [f EXCEPT ![Len(f)] = SubSeq(@, 1, Len(@) - 1)]
    ELSE f

\* the files of at most MaxLines lines drawn from L, as the iteration over
\* the file object yields them: every line ends with a newline, except
\* perhaps the last
Files(L) ==
    LET whole == UNION { [1..n -> L] : n \in 0..MaxLines }
    IN  whole \cup { ChopLast(f) : f \in whole }

InputArgs ==
    { <<"a", ".", "a", "s", "s">>,
      <<"d", ".", "x", "/", "b", ".", "c", ".", "A", "s", "s">>,
      <<".", "/", "a", ".", "A", "S", "S">>,
      <<"/", "d", "/", "/", "a", ".", "a", "s", "s", "/">>,
      <<"a", ".", "t", "x", "t">>,
      <<".", "a", "s", "s">>,
      <<"d", ".", "a", "s", "s", "/", "a">>,
      <<"a", ".", "a", "s", "s", ".", "b", "a", "k">> }

OutputArgs ==
    { None,
      Some(<<>>),
      Some(<<"o", ".", "j", "s", "o", "n">>),
      Some(<<"d", ".", "x", "/", "o">>),
      Some(<<".", "/", "o", ".", "j", "s", "o", "n">>),
      Some(<<"d", "/", "/", "o", "/">>) }

(***************************************************************************)
(* main, lines 69-81: validation of the input and the output path.         *)
(***************************************************************************)

Init ==
    /\ pc = "start"
    /\ args_input \in InputArgs
    /\ args_output \in OutputArgs
    /\ fs_stat \in {"found", "missing", "error"}
    /\ lines \in (IF fs_stat = "found" THEN Files(MainLines) ELSE {<<>>})
    /\ idx = 1
    /\ dialogues = <<>>
    /\ in_open = FALSE
    /\ out_open = FALSE
    /\ out_disk \in {Disk("absent", <<>>), Disk("old", <<>>)}
    /\ input_path = None
    /\ output_path = None
    /\ exc = "none"
    /\ stdout = <<>>

\* lines 69-72: Path.exists re-raises the error of os.stat; line 72 is
\* outside the try, so the exception leaves main
ExistsRaises ==
    /\ pc = "start"
    /\ fs_stat = "error"
    /\ input_path' = Some(Path(args_input))
    /\ pc' = "raised"
    /\ UNCHANGED <<args_input, args_output, fs_stat, lines, idx, dialogues,
                   in_open, out_open, out_disk, output_path, exc, stdout>>

\* lines 69-74: the path does not exist
InputNotFound ==
    /\ pc = "start"
    /\ fs_stat = "missing"
    /\ input_path' = Some(Path(args_input))
    /\ stdout' = Append(stdout, Msg("not_found", 0))
    /\ pc' = "done"
    /\ UNCHANGED <<args_input, args_output, fs_stat, lines, idx, dialogues,
                   in_open, out_open, out_disk, output_path, exc>>

\* lines 69-73: the path does not exist and the print of line 73 raises,
\* outside the try
InputNotFoundPrintRaises ==
    /\ pc = "start"
    /\ fs_stat = "missing"
    /\ input_path' = Some(Path(args_input))
    /\ stdout' \in PrintRaises(stdout)
    /\ pc' = "raised"
    /\ UNCHANGED <<args_input, args_output, fs_stat, lines, idx, dialogues,
                   in_open, out_open, out_disk, output_path, exc>>

\* lines 69-78: the path exists and its suffix is not .ass
InputNotAss ==
    /\ pc = "start"
    /\ fs_stat = "found"
    /\ Lower(Suffix(Path(args_input))) # Ass
    /\ input_path' = Some(Path(args_input))
    /\ stdout' = Append(stdout, Msg("not_ass", 0))
    /\ pc' = "done"
    /\ UNCHANGED <<args_input, args_output, fs_stat, lines, idx, dialogues,
                   in_open, out_open, out_disk, output_path, exc>>

\* lines 69-77: the suffix is not .ass and the print of line 77 raises,
\* outside the try
InputNotAssPrintRaises ==
    /\ pc = "start"
    /\ fs_stat = "found"
    /\ Lower(Suffix(Path(args_input))) # Ass
    /\ input_path' = Some(Path(args_input))
    /\ stdout' \in PrintRaises(stdout)
    /\ pc' = "raised"
    /\ UNCHANGED <<args_input, args_output, fs_stat, lines, idx, dialogues,
                   in_open, out_open, out_disk, output_path, exc>>

\* lines 69-81: the input is accepted and the output path resolved
InputAccepted ==
    /\ pc = "start"
    /\ fs_stat = "found"
    /\ Lower(Suffix(Path(args_input))) = Ass
    /\ input_path' = Some(Path(args_input))
    /\ output_path' = Some(ResolveOutputPath(args_output, Path(args_input)))
    /\ pc' = "parse_open"
    /\ UNCHANGED <<args_input, args_output, fs_stat, lines, idx, dialogues,
                   in_open, out_open, out_disk, exc, stdout>>

(***************************************************************************)
(* parse_ass_file, lines 28-46.                                            *)
(***************************************************************************)

\* lines 28-31: the list is created and the file opened
OpenInput ==
    /\ pc = "parse_open"
    /\ dialogues' = <<>>
    /\ idx' = 1
    /\ in_open' = TRUE
    /\ pc' = "parse_loop"
    /\ UNCHANGED <<args_input, args_output, fs_stat, lines, out_open,
                   out_disk, input_path, output_path, exc, stdout>>

\* line 31: open raises (a directory, no permission); nothing was opened
OpenInputFails ==
    /\ pc = "parse_open"
    /\ dialogues' = <<>>
    /\ exc' = "read"
    /\ pc' = "except"
    /\ UNCHANGED <<args_input, args_output, fs_stat, lines, idx, in_open,
                   out_open, out_disk, input_path, output_path, stdout>>

\* ReadLine that raises on a marked line the pattern does not match
ReadLine_RaisesOnMismatch ==
    /\ pc = "parse_loop"
    /\ idx <= Len(lines)
    /\ dialogues' = ProcessLine(dialogues, lines[idx])
    /\ idx' = idx + 1
    /\ IF StartsWith(lines[idx], Marker)
          /\ dialogue_pattern(lines[idx]) = NoMatch
       THEN in_open' = FALSE /\ exc' = "read" /\ pc' = "except"
       ELSE UNCHANGED <<in_open, exc, pc>>
    /\ UNCHANGED <<args_input, args_output, fs_stat, lines, out_open,
                   out_disk, input_path, output_path, stdout>>

\* lines 32-44: one iteration of the loop
ReadLine ==
    /\ pc = "parse_loop"
    /\ idx <= Len(lines)
    /\ dialogues' = ProcessLine(dialogues, lines[idx])
    /\ idx' = idx + 1
    /\ UNCHANGED <<pc, args_input, args_output, fs_stat, lines, in_open,
                   out_open, out_disk, input_path, output_path, exc, stdout>>

\* ReadFails without the with statement: the file stays open
ReadFails_LeavesOpen ==
    /\ pc = "parse_loop"
    /\ exc' = "read"
    /\ pc' = "except"
    /\ UNCHANGED <<args_input, args_output, fs_stat, lines, idx, dialogues,
                   in_open, out_open, out_disk, input_path, output_path,
                   stdout>>

\* ReadFails with the failure swallowed inside parse_ass_file, which
\* returns the records read so far
ReadFails_ReturnsPartial ==
    /\ pc = "parse_loop"
    /\ in_open' = FALSE
    /\ pc' = "write_open"
    /\ UNCHANGED <<args_input, args_output, fs_stat, lines, idx, dialogues,
                   out_open, out_disk, input_path, output_path, exc, stdout>>

\* line 32: reading the next line raises (the bytes are not UTF-8, an I/O
\* error); the with statement closes the file as the exception leaves it
ReadFails ==
    /\ pc = "parse_loop"
    /\ in_open' = FALSE
    /\ exc' = "read"
    /\ pc' = "except"
    /\ UNCHANGED <<args_input, args_output, fs_stat, lines, idx, dialogues,
                   out_open, out_disk, input_path, output_path, stdout>>

\* lines 32, 46: the file is exhausted, the with statement closes it and the
\* list is returned
EndOfFile ==
    /\ pc = "parse_loop"
    /\ idx > Len(lines)
    /\ in_open' = FALSE
    /\ pc' = "write_open"
    /\ UNCHANGED <<args_input, args_output, fs_stat, lines, idx, dialogues,
                   out_open, out_disk, input_path, output_path, exc, stdout>>

(***************************************************************************)
(* write_json, lines 56-57.                                                *)
(***************************************************************************)

\* line 56: open for writing creates or truncates the file
OpenOutput ==
    /\ pc = "write_open"
    /\ out_open' = TRUE
    /\ out_disk' = Disk("empty", <<>>)
    /\ pc' = "write_dump"
    /\ UNCHANGED <<args_input, args_output, fs_stat, lines, idx, dialogues,
                   in_open, input_path, output_path, exc, stdout>>

\* line 56: open raises; the disk is as it was
OpenOutputFails ==
    /\ pc = "write_open"
    /\ exc' = "write"
    /\ pc' = "except"
    /\ UNCHANGED <<args_input, args_output, fs_stat, lines, idx, dialogues,
                   in_open, out_open, out_disk, input_path, output_path, stdout>>

\* line 57: the array is written and the with statement closes the file
Dump ==
    /\ pc = "write_dump"
    /\ out_disk' = Disk("json", dialogues)
    /\ out_open' = FALSE
    /\ pc' = "report"
    /\ UNCHANGED <<args_input, args_output, fs_stat, lines, idx, dialogues,
                   in_open, input_path, output_path, exc, stdout>>

\* line 57: the write raises part-way; the with statement closes the file
DumpFails ==
    /\ pc = "write_dump"
    /\ out_disk' = Disk("partial", <<>>)
    /\ out_open' = FALSE
    /\ exc' = "write"
    /\ pc' = "except"
    /\ UNCHANGED <<args_input, args_output, fs_stat, lines, idx, dialogues,
                   in_open, input_path, output_path, stdout>>

(***************************************************************************)
(* main, lines 90-94: the report.                                          *)
(***************************************************************************)

\* line 90
PrintSuccess ==
    /\ pc = "report"
    /\ stdout' = Append(stdout, Msg("success", 0))
    /\ pc' = "report_count"
    /\ UNCHANGED <<args_input, args_output, fs_stat, lines, idx, dialogues,
                   in_open, out_open, out_disk, input_path, output_path, exc>>

\* line 90: the print raises, inside the try
PrintSuccessRaises ==
    /\ pc = "report"
    /\ stdout' \in PrintRaises(stdout)
    /\ exc' = "print"
    /\ pc' = "except"
    /\ UNCHANGED <<args_input, args_output, fs_stat, lines, idx, dialogues,
                   in_open, out_open, out_disk, input_path, output_path>>

\* line 91
PrintCount ==
    /\ pc = "report_count"
    /\ stdout' = Append(stdout, Msg("count", Len(dialogues)))
    /\ pc' = "done"
    /\ UNCHANGED <<args_input, args_output, fs_stat, lines, idx, dialogues,
                   in_open, out_open, out_disk, input_path, output_path, exc>>

\* line 91: the print raises, inside the try, after line 90 has printed
PrintCountRaises ==
    /\ pc = "report_count"
    /\ stdout' \in PrintRaises(stdout)
    /\ exc' = "print"
    /\ pc' = "except"
    /\ UNCHANGED <<args_input, args_output, fs_stat, lines, idx, dialogues,
                   in_open, out_open, out_disk, input_path, output_path>>

\* lines 93-94
ReportError ==
    /\ pc = "except"
    /\ stdout' = Append(stdout, Msg("error", 0))
    /\ pc' = "done"
    /\ UNCHANGED <<args_input, args_output, fs_stat, lines, idx, dialogues,
                   in_open, out_open, out_disk, input_path, output_path, exc>>

\* line 94: the print of the handler raises; nothing catches it
ReportErrorRaises ==
    /\ pc = "except"
    /\ stdout' \in PrintRaises(stdout)
    /\ pc' = "raised"
    /\ UNCHANGED <<args_input, args_output, fs_stat, lines, idx, dialogues,
                   in_open, out_open, out_disk, input_path, output_path, exc>>

Next ==
    \/ ExistsRaises
    \/ InputNotFound
    \/ InputNotFoundPrintRaises
    \/ InputNotAss
    \/ InputNotAssPrintRaises
    \/ InputAccepted
    \/ OpenInput
    \/ OpenInputFails
    \/ ReadLine
    \/ ReadFails
    \/ EndOfFile
    \/ OpenOutput
    \/ OpenOutputFails
    \/ Dump
    \/ DumpFails
    \/ PrintSuccess
    \/ PrintSuccessRaises
    \/ PrintCount
    \/ PrintCountRaises
    \/ ReportError
    \/ ReportErrorRaises

\* a run of main
Spec == Init /\ [][Next]_vars

(***************************************************************************)
(* parse_ass_file called on its own, on the wider set of files.            *)
(***************************************************************************)

InitParse ==
    /\ pc = "parse_open"
    /\ args_input = <<"a", ".", "a", "s", "s">>
    /\ args_output = None
    /\ fs_stat = "found"
    /\ lines \in Files(ParseLines)
    /\ idx = 1
    /\ dialogues = <<>>
    /\ in_open = FALSE
    /\ out_open = FALSE
    /\ out_disk = Disk("absent", <<>>)
    /\ input_path = Some(Path(args_input))
    /\ output_path = Some(ResolveOutputPath(args_output, Path(args_input)))
    /\ exc = "none"
    /\ stdout = <<>>

NextParse ==
    \/ OpenInput
    \/ OpenInputFails
    \/ ReadLine
    \/ ReadFails
    \/ EndOfFile

\* a call of parse_ass_file
SpecParse == InitParse /\ [][NextParse]_vars

(***************************************************************************)
(* Vocabulary of the properties: a line's commas and fields, counted from  *)
(* the text of the line and not by the pattern.                            *)
(***************************************************************************)

\* the line without its terminator
Content(line) ==
    IF line # <<>> /\ line[Len(line)] = "\n"
    THEN SubSeq(line, 1, Len(line) - 1)
    ELSE line

CommaPositions(s) == { i \in 1..Len(s) : s[i] = "," }

\* the position of the n-th comma of s, for n in 1..number of commas
NthComma(s, n) ==
    CHOOSE i \in CommaPositions(s) :
        Cardinality({ j \in CommaPositions(s) : j <= i }) = n

\* the text between the n-th comma of s and the next one
CommaField(s, n) == SubSeq(s, NthComma(s, n) + 1, NthComma(s, n + 1) - 1)

\* everything after the n-th comma of s
AfterComma(s, n) == SubSeq(s, NthComma(s, n) + 1, Len(s))

BeginsWithMarker(line) ==
    /\ Len(line) >= 9
    /\ SubSeq(line, 1, 9) = <<"D", "i", "a", "l", "o", "g", "u", "e", ":">>

\* what follows the marker on the line
AfterMarker(line) == SubSeq(Content(line), 10, Len(Content(line)))

IsBlank(s) == \A i \in 1..Len(s) : s[i] \in Whitespace

\* s without its leading and trailing whitespace
Trimmed(s) ==
    LET solid == { i \in 1..Len(s) : s[i] \notin Whitespace }
    IN  IF solid = {} THEN <<>>
        ELSE SubSeq(s, CHOOSE i \in solid : \A j \in solid : i <= j,
                       CHOOSE i \in solid : \A j \in solid : j <= i)

\* a step of the loop of parse_ass_file over line lines[idx]
ReadStep == pc = "parse_loop" /\ idx <= Len(lines) /\ idx' = idx + 1

\* the marker and at least nine commas after it
MarkedWithNineCommas(line) ==
    /\ BeginsWithMarker(line)
    /\ Cardinality(CommaPositions(AfterMarker(line))) >= 9

\* the marker and fewer than nine commas after it
MarkedAndShort(line) ==
    /\ BeginsWithMarker(line)
    /\ Cardinality(CommaPositions(AfterMarker(line))) < 9

\* a line of the input format: the marker, a blank, at least nine commas
WellFormed(line) ==
    /\ MarkedWithNineCommas(line)
    /\ Len(line) >= 10
    /\ line[10] = " "

\* the record the field schema gives for a line with at least nine commas
SchemaRecord(line) ==
    [start_time |-> CommaField(AfterMarker(line), 1),
     end_time   |-> CommaField(AfterMarker(line), 2),
     dialog     |-> Trimmed(AfterComma(AfterMarker(line), 9))]

(***************************************************************************)
(* C1.  Every line that begins with the marker Dialogue: and has at least  *)
(* nine commas after the marker yields exactly one record: start_time is   *)
(* comma field 1, end_time comma field 2, dialog everything after the      *)
(* ninth comma, trimmed.  The code refutes it: the pattern wants a blank   *)
(* after the colon, so Dialogue:0,... yields nothing.                      *)
(***************************************************************************)
C1_MarkedLineYieldsRecord ==
    [][ (ReadStep /\ MarkedWithNineCommas(lines[idx]))
        => dialogues' = Append(dialogues, SchemaRecord(lines[idx])) ]_vars

(***************************************************************************)
(* C2.  A line that does not begin with the marker Dialogue: at column 0   *)
(* leaves the record list unchanged and raises nothing: the loop goes on.  *)
(***************************************************************************)
C2_UnmarkedLineIgnored ==
    [][ (ReadStep /\ ~BeginsWithMarker(lines[idx]))
        => /\ dialogues' = dialogues
           /\ pc' = "parse_loop"
           /\ exc' = "none"
           /\ in_open' ]_vars

\* an unmarked line with nine commas has been read and nothing was emitted
C2_Witness ==
    /\ pc = "parse_loop"
    /\ idx = 2
    /\ ~BeginsWithMarker(lines[1])
    /\ Cardinality(CommaPositions(lines[1])) >= 9
    /\ dialogues = <<>>

(***************************************************************************)
(* C3.  A line that begins with the marker and has fewer than nine commas  *)
(* yields no record and raises nothing; the pass continues, and every      *)
(* line of the input format in the same file, before or after it, yields   *)
(* its record: at the end of the pass there is one record per such line.   *)
(***************************************************************************)
C3_ShortLineSkipped ==
    /\ [][ (ReadStep /\ MarkedAndShort(lines[idx]))
           => /\ dialogues' = dialogues
              /\ pc' = "parse_loop"
              /\ exc' = "none"
              /\ in_open' ]_vars
    /\ [][ (ReadStep /\ WellFormed(lines[idx])
                     /\ \E j \in 1..Len(lines) : MarkedAndShort(lines[j]))
           => dialogues' = Append(dialogues, SchemaRecord(lines[idx])) ]_vars
    /\ [](pc = "write_open"
          => /\ idx = Len(lines) + 1
             /\ Len(dialogues) >=
                    Cardinality({ i \in 1..Len(lines) : WellFormed(lines[i]) }))

\* a pass over a short line followed by a well-formed one has ended with
\* the one record
C3_Witness ==
    /\ pc = "write_open"
    /\ Len(lines) = 2
    /\ MarkedAndShort(lines[1])
    /\ WellFormed(lines[2])
    /\ dialogues = <<SchemaRecord(lines[2])>>

\* the lines among the first n that the extraction pattern matches
MatchedLines(n) ==
    { i \in 1..n : StartsWith(lines[i], Marker)
                   /\ dialogue_pattern(lines[i]) # NoMatch }

\* the k-th of them
KthMatched(n, k) ==
    CHOOSE i \in MatchedLines(n) :
        Cardinality({ j \in MatchedLines(n) : j <= i }) = k

\* the record of a matched line
RecordOf(line) ==
    [start_time |-> dialogue_pattern(line)[1],
     end_time   |-> dialogue_pattern(line)[2],
     dialog     |-> Strip(dialogue_pattern(line)[4])]

\* ds is the list of the records of the matched lines among the first n
RecordsOfFirst(ds, n) ==
    /\ Len(ds) = Cardinality(MatchedLines(n))
    /\ \A k \in 1..Len(ds) : ds[k] = RecordOf(lines[KthMatched(n, k)])

(***************************************************************************)
(* C4.  The records are exactly those of the lines the pattern matches,    *)
(* in line order: record k comes from the k-th matched line, so none is    *)
(* duplicated, dropped or reordered.  While the loop runs this holds of    *)
(* the lines read so far; after a complete run the array on disk is that   *)
(* list, and a count that is printed is its length, the number of matched  *)
(* lines.                                                                  *)
(***************************************************************************)
C4_ArrayIsMatchedLinesInOrder ==
    /\ pc = "parse_loop" => RecordsOfFirst(dialogues, idx - 1)
    /\ pc \in {"write_open", "write_dump", "report", "report_count"}
           => RecordsOfFirst(dialogues, Len(lines))
    /\ out_disk.state = "json" => RecordsOfFirst(out_disk.array, Len(lines))
    /\ \A i \in 1..Len(stdout) :
           stdout[i].kind = "count"
           => /\ out_disk.state = "json"
              /\ stdout[i].count = Len(out_disk.array)
              /\ stdout[i].count = Cardinality(MatchedLines(Len(lines)))

\* a run has ended in success with two different records written, the
\* first from the first line
C4_Witness ==
    /\ pc = "done"
    /\ stdout = <<Msg("success", 0), Msg("count", 2)>>
    /\ Len(out_disk.array) = 2
    /\ out_disk.array[1] # out_disk.array[2]
    /\ out_disk.array[1] = RecordOf(lines[1])

\* text is dialog with only whitespace before and after it
TrimOf(text, dialog) ==
    /\ dialog = <<>> \/ (dialog[1] \notin Whitespace
                         /\ dialog[Len(dialog)] \notin Whitespace)
    /\ \E a \in 0..Len(text) :
           /\ a + Len(dialog) <= Len(text)
           /\ IsBlank(SubSeq(text, 1, a))
           /\ SubSeq(text, a + 1, a + Len(dialog)) = dialog
           /\ IsBlank(SubSeq(text, a + Len(dialog) + 1, Len(text)))

(***************************************************************************)
(* C5.  Every emitted record has a dialog without leading or trailing      *)
(* whitespace that is otherwise the text after the ninth comma of its      *)
(* line, character for character: that text is blanks, the dialog, blanks. *)
(* start_time and end_time are comma fields 1 and 2 of the line, not       *)
(* trimmed.                                                                *)
(***************************************************************************)
C5_DialogTrimmedTimesVerbatim ==
    [][ (ReadStep /\ dialogues' # dialogues)
        => /\ Len(dialogues') = Len(dialogues) + 1
           /\ SubSeq(dialogues', 1, Len(dialogues)) = dialogues
           /\ LET record == dialogues'[Len(dialogues')]
                  text   == Content(lines[idx])
              IN  /\ Cardinality(CommaPositions(text)) >= 9
                  /\ TrimOf(AfterComma(text, 9), record.dialog)
                  /\ record.start_time = CommaField(text, 1)
                  /\ record.end_time = CommaField(text, 2) ]_vars

\* a record has been emitted whose times keep their blanks and whose
\* dialog lost blanks on both sides and kept its inner blanks and markup
C5_Witness ==
    /\ pc = "parse_loop"
    /\ idx = 2
    /\ Len(dialogues) = 1
    /\ dialogues[1].start_time # Trimmed(dialogues[1].start_time)
    /\ dialogues[1].end_time # Trimmed(dialogues[1].end_time)
    /\ \E text \in Texts :
           /\ AfterComma(Content(lines[1]), 9) = text
           /\ text # dialogues[1].dialog
           /\ dialogues[1].dialog # <<>>

(***************************************************************************)
(* Vocabulary of the properties of main: a path argument read character    *)
(* by character.                                                           *)
(***************************************************************************)

\* the positions where a component of s begins
Starts(s) == { i \in 1..Len(s) : s[i] # "/" /\ (i = 1 \/ s[i - 1] = "/") }

\* the component of s that begins at position i
Piece(s, i) ==
    SubSeq(s, i, CHOOSE j \in i..Len(s) :
                     /\ \A k \in i..j : s[k] # "/"
                     /\ j = Len(s) \/ s[j + 1] = "/")

\* the components that name something: "." names the directory it is in
KeptStarts(s) == { i \in Starts(s) : Piece(s, i) # <<".">> }

\* the k-th of them
NthKept(s, k) ==
    CHOOSE i \in KeptStarts(s) :
        Cardinality({ j \in KeptStarts(s) : j <= i }) = k

\* the first k of them, one slash between two
RECURSIVE JoinedFirst(_, _)
JoinedFirst(s, k) ==
    IF k = 0 THEN <<>>
    ELSE IF k = 1 THEN Piece(s, NthKept(s, 1))
    ELSE JoinedFirst(s, k - 1) \o <<"/">> \o Piece(s, NthKept(s, k))

\* the slashes s begins with: POSIX tells two from one, and three or more
\* are one
RootOf(s) ==
    LET n == Cardinality({ i \in 1..Len(s) : \A j \in 1..i : s[j] = "/" })
    IN  IF n = 0 THEN <<>> ELSE IF n = 2 THEN <<"/", "/">> ELSE <<"/">>

\* the same path written without repeated or trailing slashes and without
\* "." components; the current directory when nothing is left
NormalForm(s) ==
    IF RootOf(s) \o JoinedFirst(s, Cardinality(KeptStarts(s))) = <<>>
    THEN <<".">>
    ELSE RootOf(s) \o JoinedFirst(s, Cardinality(KeptStarts(s)))

\* the last component of the path's extension is .ass in some letter case
HasAssExtension(s) ==
    /\ KeptStarts(s) # {}
    /\ LET name == Piece(s, NthKept(s, Cardinality(KeptStarts(s))))
           n    == Len(name)
       IN  /\ n > 4
           /\ name[n - 3] = "."
           /\ name[n - 2] \in {"a", "A"}
           /\ name[n - 1] \in {"s", "S"}
           /\ name[n] \in {"s", "S"}

\* the disk at the output path is as it was before the run
OutputUntouched == out_disk \in {Disk("absent", <<>>), Disk("old", <<>>)}

Printed(kind) == \E i \in 1..Len(stdout) : stdout[i].kind = kind

\* the read pass of parse_ass_file ran to the end of the file
ReadCompleted == idx = Len(lines) + 1 /\ ~in_open /\ exc # "read"

\* main is over: it returned, or an exception left it
Ended == pc \in {"done", "raised"}

(***************************************************************************)
(* C6.  When the input path does not exist the run prints the not-found    *)
(* message, whatever the extension; when it exists with an extension that  *)
(* is not .ass in any letter case the run prints the invalid-extension     *)
(* message.  In both cases the input is never opened, the output is never  *)
(* opened or written, and no success message is printed.  The code         *)
(* refutes the first part: the print of the message can raise, outside     *)
(* the try of main, and the run ends with the message not printed.         *)
(***************************************************************************)
C6_RejectedInputReported ==
    (fs_stat = "missing" \/ (fs_stat = "found" /\ ~HasAssExtension(args_input)))
    => /\ ~in_open
       /\ ~out_open
       /\ OutputUntouched
       /\ dialogues = <<>>
       /\ ~Printed("success")
       /\ Ended =>
              stdout = IF fs_stat = "missing" THEN <<Msg("not_found", 0)>>
                                              ELSE <<Msg("not_ass", 0)>>

(***************************************************************************)
(* C7.  A run ends with exactly one outcome printed: the success message   *)
(* (its two lines) or one error message, never both and never neither.     *)
(* Every failure is caught and printed as the error message, and main      *)
(* returns: no exception leaves it.  Success is printed only when the      *)
(* read pass and the write both completed.  The code refutes it: the       *)
(* existence test of line 72 and the prints of lines 73, 77 and 94 are     *)
(* outside the try, and line 91 can fail after line 90 has printed.        *)
(***************************************************************************)
C7_OneTerminalMessage ==
    /\ pc # "raised"
    /\ pc = "done" =>
           \/ /\ stdout = <<Msg("success", 0), Msg("count", Len(dialogues))>>
              /\ exc = "none"
           \/ /\ stdout \in { <<Msg("not_found", 0)>>, <<Msg("not_ass", 0)>> }
              /\ exc = "none"
           \/ /\ stdout = <<Msg("error", 0)>>
              /\ exc # "none"
    /\ Printed("success") =>
           /\ ReadCompleted
           /\ out_disk.state = "json"
           /\ ~out_open

(***************************************************************************)
(* C8.  The input file is open exactly during the read pass and is closed  *)
(* on every way out of it, the end of the file and a failure part-way      *)
(* alike; the input and the output are never open together, and the input  *)
(* is closed before the output is opened.                                  *)
(***************************************************************************)
C8_InputOpenOnlyDuringPass ==
    /\ in_open <=> pc = "parse_loop"
    /\ out_open => pc = "write_dump"
    /\ ~(in_open /\ out_open)
    /\ (out_open \/ ~OutputUntouched) => ReadCompleted

\* a read failed after the first line and the input is closed
C8_Witness ==
    /\ pc = "except"
    /\ exc = "read"
    /\ idx = 2
    /\ Len(lines) = 2
    /\ ~in_open

\* s with its last four characters, the .ass extension in whatever case,
\* replaced by .json: directory and stem as they were
JsonFor(s) == SubSeq(s, 1, Len(s) - 4) \o <<".", "j", "s", "o", "n">>

(***************************************************************************)
(* C9 as stated.  When no output path is given the output path is the      *)
(* input path with its final extension replaced by .json; when one is      *)
(* given it is used exactly as given.  The code refutes it for -o "":      *)
(* the empty str is given, and the output goes beside the input; and for   *)
(* -o ./o.json, which becomes o.json.                                      *)
(***************************************************************************)
C9_GivenOutputUsedAsGiven ==
    output_path # None
    => IF args_output = None
       THEN Str(output_path[1]) = JsonFor(args_input)
       ELSE Str(output_path[1]) = args_output[1]

(***************************************************************************)
(* C9 amended.  When no output path or an empty one is given the output    *)
(* path is the normal form of the input path with its final extension      *)
(* replaced by .json; when a non-empty one is given the output path is     *)
(* its normal form, whatever the input.                                    *)
(***************************************************************************)
C9_OutputIsNormalFormOfGiven ==
    output_path # None
    => IF args_output = None \/ args_output = Some(<<>>)
       THEN Str(output_path[1]) = JsonFor(NormalForm(args_input))
       ELSE Str(output_path[1]) = NormalForm(args_output[1])

\* the output path was resolved for -o "" and an input in a directory,
\* with two dots in its name and a mixed-case extension; and, in another
\* run, for a path given with a doubled and a trailing slash
C9_Witness ==
    /\ pc = "parse_open"
    /\ \/ /\ args_output = Some(<<>>)
          /\ args_input
                 = <<"d", ".", "x", "/", "b", ".", "c", ".", "A", "s", "s">>
          /\ Str(output_path[1])
                 = <<"d", ".", "x", "/", "b", ".", "c", ".", "j", "s", "o", "n">>
       \/ /\ args_output = Some(<<"d", "/", "/", "o", "/">>)
          /\ Str(output_path[1]) = <<"d", "/", "o">>

(***************************************************************************)
(* C10.  The output file is opened, and the disk at the output path        *)
(* changed, only by a step taken after the whole input was read without    *)
(* failure; so when the read pass fails, at any line, what was at the      *)
(* output path before the run is still there unchanged.                    *)
(***************************************************************************)
C10_OutputOpenedAfterCompleteRead ==
    /\ [][ (out_open' \/ out_disk' # out_disk)
           => /\ pc \in {"write_open", "write_dump"}
              /\ ReadCompleted
              /\ exc = "none" ]_vars
    /\ []((exc = "read" \/ pc \in {"start", "parse_open", "parse_loop"})
          => OutputUntouched /\ ~out_open)

\* the read failed after the first line and the old file is still there
C10_Witness ==
    /\ pc = "done"
    /\ exc = "read"
    /\ idx = 2
    /\ dialogues # <<>>
    /\ out_disk = Disk("old", <<>>)

====
